---- MODULE Spec2Model ----
(***************************************************************************)
(* Model of pendragondi-cloud-audit: the three provider scans              *)
(* (providers/aws_s3.py, providers/gcs.py, providers/azure_blob.py), the   *)
(* scan_bucket wrapper (auditor_core.py) and the report normalizer         *)
(* (reporter.py).                                                          *)
(*                                                                         *)
(* Time is counted in ticks; one second is TicksPerSecond ticks, so a      *)
(* datetime with a non-zero microsecond part is a tick count that is not a *)
(* multiple of TicksPerSecond.                                             *)
(***************************************************************************)
EXTENDS Integers, Sequences, FiniteSets, TLC

\* ---------------------------------------------------------------- bounds
MaxObjs == 4          \* objects a container holds at most
MaxLimit == 2         \* largest --limit value tried
PageSize == 2         \* objects per list_objects_v2 page
TicksPerSecond == 2   \* sub-second resolution of a datetime
MaxRecords == 2       \* records in a list handed to the reporter directly
MaxMalformedObjs == 2 \* objects of a container that may hold malformed ones
MaxPairObjs == 2      \* objects of each container of two concurrent scans

\* ------------------------------------------------------ program constants
SecondsPerDay == 86400   \* timedelta(days=1)
HashMod == 10000         \* hash(...) % 10000

DayTicks == SecondsPerDay * TicksPerSecond
T0 == 20 * DayTicks      \* a reference instant on a whole second

\* Optional values: None is <<>>, a value v is <<v>>.
None == <<>>
Some(v) == <<v>>
\* Python truthiness of an Optional[int]: None and 0 are falsy.
Truthy(opt) == opt # None /\ opt[1] # 0

Min(a, b) == IF a < b THEN a ELSE b

\* ----------------------------------------------------------- input sets
Providers == {"aws_s3", "gcs", "azure_blob"}
KnownBuckets == {"commoncrawl", "nyc-tlc", "landsat-pds"}
Buckets == KnownBuckets \cup {"test-bucket"}
\* Object kinds a container may hold: pairwise they differ in size only, in
\* last_modified only, or in both.
SourceObjs ==
    { [size |-> 1024, last_modified |-> T0 - DayTicks],
      [size |-> 4096, last_modified |-> T0 - DayTicks],
      [size |-> 4096, last_modified |-> T0] }
Nows == {T0, T0 + 1}
DaysStale == {0, 1}
Limits == {None} \cup {Some(k) : k \in 0..MaxLimit}
\* hash() values a run may produce: 7 and 10007 agree modulo 10000, -8 is
\* negative.
RawHashes == {7, 10007, -8}

Sources == UNION {[1..n -> SourceObjs] : n \in 0..MaxObjs}

\* ------------------------------------------------------------ exceptions
Exc(cls, info) == [cls |-> cls, info |-> info]
NoExc == Exc("none", "")

\* A call of a provider's scan, directly or through scan_bucket.
DirectCalls ==
    { [caller |-> "direct", provider |-> p, public |-> pub, bucket |-> b,
       limit |-> l, oversized_mb |-> None] :
        p \in Providers, pub \in BOOLEAN, b \in Buckets, l \in Limits }
OversizedCalls ==
    { [caller |-> "direct", provider |-> p, public |-> FALSE, bucket |-> "test-bucket",
       limit |-> None, oversized_mb |-> Some(t)] :
        p \in Providers, t \in {0, 1} }
ScanBucketCalls ==
    { [caller |-> "scan_bucket", provider |-> p, public |-> FALSE, bucket |-> "test-bucket",
       limit |-> l, oversized_mb |-> None] :
        p \in Providers, l \in Limits }
\* Only the public mode of aws_s3 reads the bucket name, and azure_blob never
\* reads its public argument.
Calls ==
    { c \in DirectCalls :
        /\ c.bucket # "test-bucket" => (c.provider = "aws_s3" /\ c.public)
        /\ c.provider = "azure_blob" => ~c.public }
    \cup OversizedCalls \cup ScanBucketCalls

VARIABLES
    call,          \* the arguments of the call and who makes it
    days_stale,    \* days_stale argument
    now,           \* datetime.now(timezone.utc) at the start of the scan
    source,        \* the container's objects, in enumeration order
    pc,            \* "call", "scan", "enumerating", "grouping", "returned", "raised"
    stale_cutoff,  \* stale_cutoff / cutoff
    page,          \* pages fetched so far (aws_s3 paginator)
    pos,           \* source items consumed by the loop so far
    count,         \* count / checked
    files,         \* files
    hash_map,      \* hash_map / groups, in insertion order
    asked,         \* items the source was asked to list or probe so far
    src_failed,    \* a request to the source raised during enumeration
    exc,           \* what provider.scan (or get_provider) raised
    escaped,       \* what left the called entry point
    data,          \* the record list handed to the reporter, as it was handed over
    metadata,      \* the reporter's metadata: the list it works on
    headers,       \* the column list the reporter computed, None before that
    peer           \* the locals of a second, concurrent invocation while it is
                   \* not the one taking a step; NoPeer when there is none

vars == <<call, days_stale, now, source, pc, stale_cutoff, page, pos, count, files,
          hash_map, asked, src_failed, exc, escaped, data, metadata, headers, peer>>

\* ------------------------------------------------------------ pure helpers
\* now.replace(microsecond=0)
ReplaceMicrosecond0(t) == t - (t % TicksPerSecond)

\* The cutoff each provider computes from the captured now.
StaleCutoff(provider, t, days) ==
    IF provider = "aws_s3"
    THEN ReplaceMicrosecond0(t) - days * DayTicks
    ELSE t - days * DayTicks

\* is_stale = last_modified < stale_cutoff
IsStale(last_modified, cutoff) == last_modified < cutoff

Scheme(provider) ==
    CASE provider = "aws_s3" -> "s3"
      [] provider = "gcs" -> "gs"
      [] OTHER -> "az"

\* f"s3://{bucket}/{key}", f"gs://{bucket}/{blob.name}", f"az://{container_name}/{blob.name}";
\* the public Sentinel-2 rows all live in one bucket.  The i-th object's key is i.
PathOf(c, i) ==
    IF c.provider = "gcs" /\ c.public
    THEN <<"gs", "gcp-public-data-sentinel-2", i>>
    ELSE <<Scheme(c.provider), c.bucket, i>>

\* last_modified.isoformat(): a string, not a datetime.
IsoFormat(t) == <<"iso", t>>

\* The last_modified a provider stores in the record.
RecordLastModified(provider, t) ==
    IF provider = "gcs" THEN IsoFormat(t) ELSE t

\* FileRec with the duplicate id assigned at append time instead of None
FileRecPreassigned(path, size, last_modified, is_stale) ==
    [path |-> path, size |-> size, last_modified |-> last_modified,
     is_stale |-> is_stale, duplicate_id |-> Some(0)]

\* files.append({...}) with "duplicate_id": None
FileRec(path, size, last_modified, is_stale) ==
    [path |-> path, size |-> size, last_modified |-> last_modified,
     is_stale |-> is_stale, duplicate_id |-> None]

\* hash_map[fingerprint].append(path) on an insertion-ordered defaultdict(list)
HashMapAppend(hm, fp, path) ==
    IF \E g \in 1..Len(hm) : hm[g].fp = fp
    THEN [g \in 1..Len(hm) |->
            IF hm[g].fp = fp
            THEN [hm[g] EXCEPT !.group = Append(@, path)]
            ELSE hm[g]]
    ELSE Append(hm, [fp |-> fp, group |-> <<path>>])

\* An object the source yields is a record of the metadata it carries: a
\* well-formed one has size and last_modified, a malformed one has a negative
\* size or no last_modified (the key, attribute or header is absent or None).
HasTimestamp(obj) == "last_modified" \in DOMAIN obj

\* None where a record or a fingerprint holds a datetime.
NoneTimestamp == -1

\* obj['LastModified'] < stale_cutoff and blob.updated < stale_cutoff raise a
\* TypeError on None; azure_blob and the public gcs rows never compare None.
RaisesOnObject(c, obj) ==
    /\ ~HasTimestamp(obj)
    /\ c.provider = "aws_s3" \/ (c.provider = "gcs" /\ ~c.public)

\* The instant the loop compares with the cutoff: (lm or now) in azure_blob,
\* parsedate_to_datetime(...) if last_modified_raw else now in the public gcs rows.
ComparedInstant(obj, t) == IF HasTimestamp(obj) THEN obj.last_modified ELSE t

\* The last_modified the loop keeps: lm stays None in azure_blob, the public
\* gcs rows take now.
LoopLastModified(c, obj, t) ==
    IF HasTimestamp(obj) THEN obj.last_modified
    ELSE IF c.provider = "azure_blob" THEN NoneTimestamp
    ELSE t

\* The body of a loop iteration that got an object's metadata.
AppendObject(c, cutoff, fs, i, obj, t) ==
    Append(fs, FileRec(PathOf(c, i), obj.size,
                       RecordLastModified(c.provider, LoopLastModified(c, obj, t)),
                       IsStale(ComparedInstant(obj, t), cutoff)))

\* f"group-{n}"
GroupId(n) == Some(n)

\* paths sorted ascending (all paths of a scan share scheme and bucket)
RECURSIVE SortedPaths(_)
SortedPaths(paths) ==
    IF Len(paths) <= 1 THEN paths
    ELSE LET m == CHOOSE i \in 1..Len(paths) :
                     \A j \in 1..Len(paths) : paths[i][3] <= paths[j][3]
             rest == [k \in 1..(Len(paths) - 1) |->
                         IF k < m THEN paths[k] ELSE paths[k + 1]]
         IN  <<paths[m]>> \o SortedPaths(rest)

\* IsDuplicateGroup with the threshold off by one: len(group) >= 1
IsDuplicateGroupFromOne(group) == Len(group) >= 1

\* if len(group) > 1
IsDuplicateGroup(group) == Len(group) > 1

\* What a scan hashes: aws_s3 and gcs hash each path of a group, azure_blob
\* hashes the sorted tuple of a group's paths.
HashedKeys(provider, hm) ==
    IF provider = "azure_blob"
    THEN { SortedPaths(hm[g].group) :
              g \in { g \in 1..Len(hm) : IsDuplicateGroup(hm[g].group) } }
    ELSE UNION { { hm[g].group[k] : k \in 1..Len(hm[g].group) } :
                    g \in { g \in 1..Len(hm) : IsDuplicateGroup(hm[g].group) } }

Abs(n) == IF n < 0 THEN -n ELSE n

\* The id written to the k-th path of a group, h being the run's hash().
DupIdFor(provider, h, group, k) ==
    IF provider = "azure_blob"
    THEN GroupId(Abs(h[SortedPaths(group)]) % HashMod)
    ELSE GroupId(h[group[k]] % HashMod)

\* for file in files: if file["path"] == path: file["duplicate_id"] = id
SetDuplicateId(fs, path, id) ==
    [i \in 1..Len(fs) |->
        IF fs[i].path = path THEN [fs[i] EXCEPT !.duplicate_id = id] ELSE fs[i]]

\* for path in group: ...
RECURSIVE MarkGroup(_, _, _, _, _)
MarkGroup(provider, h, fs, group, k) ==
    IF k > Len(group) THEN fs
    ELSE MarkGroup(provider, h,
                   SetDuplicateId(fs, group[k], DupIdFor(provider, h, group, k)),
                   group, k + 1)

\* for group in hash_map.values(): if len(group) > 1: ...
RECURSIVE AssignDuplicateIds(_, _, _, _, _)
AssignDuplicateIds(provider, h, fs, hm, g) ==
    IF g > Len(hm) THEN fs
    ELSE AssignDuplicateIds(provider, h,
             IF IsDuplicateGroup(hm[g].group)
             THEN MarkGroup(provider, h, fs, hm[g].group, 1)
             ELSE fs,
             hm, g + 1)

\* if limit and count >= limit
LimitReached(limit, n) == Truthy(limit) /\ n >= limit[1]

\* ------------------------------------------------- auditor_core.scan_bucket
\* The substrings scan_bucket looks for in an ImportError's message.
MsgContains(msg) ==
    CASE msg = "No module named 'boto3'" -> {"boto3"}
      [] msg = "GCS support requires google-cloud-storage. Install with: pip install pendragondi-cloud-audit[gcs]"
            -> {"google", "GCS support"}
      [] msg = "Azure support requires azure-storage-blob. Install with: pip install pendragondi-cloud-audit[azure]"
            -> {"azure", "Azure support"}
      [] OTHER -> {}

\* The ImportErrors importing a provider module can raise.
ImportMessages(provider) ==
    CASE provider = "aws_s3" -> {"No module named 'boto3'"}
      [] provider = "gcs" ->
            {"GCS support requires google-cloud-storage. Install with: pip install pendragondi-cloud-audit[gcs]"}
      [] OTHER ->
            {"Azure support requires azure-storage-blob. Install with: pip install pendragondi-cloud-audit[azure]"}

\* except ImportError as e: ... around get_provider
ImportTranslate(msg) ==
    IF MsgContains(msg) \cap {"boto3", "AWS support"} # {}
    THEN Exc("RuntimeError", "AWS provider not installed")
    ELSE IF MsgContains(msg) \cap {"google", "GCS support"} # {}
    THEN Exc("RuntimeError", "GCS provider not installed")
    ELSE IF MsgContains(msg) \cap {"azure", "Azure support"} # {}
    THEN Exc("RuntimeError", "Azure provider not installed")
    ELSE Exc("ImportError", msg)

\* except ClientError as e: the error codes that are translated
TranslatedClientCodes == {"AccessDenied"}

\* The except clauses around provider.scan, in order.
ScanBucketTranslate(e) ==
    CASE e.cls = "PermissionError" -> Exc("RuntimeError", "Permission denied")
      [] e.cls = "FileNotFoundError" -> Exc("RuntimeError", "Bucket or container not found")
      [] e.cls = "ConnectionError" -> Exc("RuntimeError", "Network connection error")
      [] e.cls = "ClientError" ->
            IF e.info \in TranslatedClientCodes
            THEN Exc("RuntimeError", "Access denied scanning")
            ELSE e
      [] OTHER -> Exc("RuntimeError", "Unexpected error scanning")

\* What leaves the entry point when provider.scan raises e.
Escape(c, e) == IF c.caller = "scan_bucket" THEN ScanBucketTranslate(e) ELSE e

\* ------------------------------------------------- errors of the sources
AwsErrors == { Exc("ClientError", "AccessDenied"), Exc("ClientError", "NoSuchBucket"),
               Exc("EndpointConnectionError", "") }
GcsErrors == { Exc("Forbidden", ""), Exc("NotFound", "") }
AzureErrors == { Exc("ClientAuthenticationError", ""), Exc("ResourceNotFoundError", ""),
                 Exc("HttpResponseError", "403"), Exc("HttpResponseError", "404"),
                 Exc("HttpResponseError", "500"), Exc("TimeoutError", ""),
                 Exc("ServiceRequestError", "") }

\* The except clauses of azure_blob.scan, in order.
AzureTranslate(e) ==
    CASE e.cls = "ClientAuthenticationError" -> Exc("PermissionError", "Azure authentication failed")
      [] e.cls = "ResourceNotFoundError" -> Exc("FileNotFoundError", "Container not found or inaccessible")
      [] e.cls = "HttpResponseError" ->
            IF e.info \in {"401", "403"} THEN Exc("PermissionError", "Access denied")
            ELSE IF e.info = "404" THEN Exc("FileNotFoundError", "Container not found")
            ELSE e
      [] e.cls \in {"TimeoutError", "ConnectionError"} ->
            Exc("ConnectionError", "Network connection error while listing Azure blobs")
      [] OTHER -> e

\* known_keys: the number of keys listed for a bucket
KnownKeyCount(bucket) ==
    CASE bucket = "commoncrawl" -> 3
      [] bucket = "nyc-tlc" -> 2
      [] bucket = "landsat-pds" -> 1
      [] OTHER -> 0

\* ------------------------------------------------------------------ Init
\* No second invocation runs.
NoPeer == [pc |-> "absent"]

\* hash_map bound to the map of the invocation running next to this one (a
\* module-level map) instead of a defaultdict created by the call
SharedHashMap == IF peer.pc = "absent" THEN <<>> ELSE peer.hash_map

\* files = []
NewFiles == <<>>

\* hash_map = defaultdict(list) / groups = defaultdict(list)
NewHashMap == <<>>

\* A call about to be made: no local of the scan exists yet.
AtCall ==
    /\ pc = IF call.caller = "scan_bucket" THEN "call" ELSE "scan"
    /\ stale_cutoff = 0
    /\ page = 0
    /\ pos = 0
    /\ count = 0
    /\ files = <<>>
    /\ hash_map = <<>>
    /\ asked = 0
    /\ src_failed = FALSE
    /\ exc = NoExc
    /\ escaped = NoExc
    /\ data = <<>>
    /\ metadata = <<>>
    /\ headers = None

Init ==
    /\ call \in Calls
    /\ days_stale \in DaysStale
    /\ now \in Nows
    /\ source \in Sources
    /\ AtCall
    /\ peer = NoPeer

\* The call ends by raising e; its locals are gone.
Raise(e, failed) ==
    /\ pc' = "raised"
    /\ exc' = e
    /\ escaped' = Escape(call, e)
    /\ src_failed' = failed
    /\ files' = <<>>
    /\ hash_map' = <<>>
    /\ page' = 0
    /\ pos' = 0
    /\ count' = 0
    /\ UNCHANGED <<call, days_stale, now, source, stale_cutoff, asked>>

\* The loop body appended object i and goes on, or leaves the loop when done.
Took(i, n, done) ==
    /\ files' = AppendObject(call, stale_cutoff, files, i, source[i], now)
    /\ hash_map' = HashMapAppend(hash_map,
                                 <<source[i].size, LoopLastModified(call, source[i], now)>>,
                                 PathOf(call, i))
    /\ count' = n
    /\ pos' = i
    /\ pc' = IF done THEN "grouping" ELSE "enumerating"
    /\ UNCHANGED <<call, days_stale, now, source, stale_cutoff, exc, escaped>>

\* The comparison of a None last_modified with the cutoff raises.
NoneCompare == Exc("TypeError", "'<' not supported between 'NoneType' and 'datetime'")

\* The loop ends: the source is exhausted or the loop breaks.
EndLoop ==
    /\ pc' = "grouping"
    /\ UNCHANGED <<call, days_stale, now, source, stale_cutoff, page, pos, count, files,
                   hash_map, asked, src_failed, exc, escaped>>

\* scan_bucket: provider = get_provider(provider_name)
ScanBucketGetProvider ==
    /\ pc = "call"
    /\ UNCHANGED <<data, metadata, headers, peer>>
    /\ \/ /\ pc' = "scan"
          /\ UNCHANGED <<call, days_stale, now, source, stale_cutoff, page, pos, count,
                         files, hash_map, asked, src_failed, exc, escaped>>
       \/ \E msg \in ImportMessages(call.provider) :
            /\ pc' = "raised"
            /\ exc' = Exc("ImportError", msg)
            /\ escaped' = ImportTranslate(msg)
            /\ UNCHANGED <<call, days_stale, now, source, stale_cutoff, page, pos, count,
                           files, hash_map, asked, src_failed>>

\* Entering a provider's scan, up to its enumeration loop.
ScanStart ==
    /\ pc = "scan"
    /\ UNCHANGED <<data, metadata, headers, peer>>
    /\ IF call.oversized_mb # None
       THEN Raise(Exc("TypeError", "unexpected keyword argument 'oversized_mb'"), FALSE)
       ELSE IF call.provider = "aws_s3" /\ call.public /\ call.bucket \notin KnownBuckets
       THEN Raise(Exc("RuntimeError", "Public mode is not supported for bucket"), FALSE)
       ELSE \/ /\ pc' = "enumerating"
               /\ stale_cutoff' = StaleCutoff(call.provider, now, days_stale)
               /\ files' = NewFiles
               /\ hash_map' = NewHashMap
               /\ UNCHANGED <<call, days_stale, now, source, page, pos, count, asked,
                              src_failed, exc, escaped>>
            \/ /\ call.provider = "gcs" /\ call.public
               /\ Raise(Exc("RuntimeError", "Failed to fetch public Sentinel-2 manifest"), TRUE)
            \/ /\ call.provider = "azure_blob"
               /\ Raise(AzureTranslate(Exc("ValueError",
                            "Provide a container URL or set AZURE_STORAGE_CONNECTION_STRING")),
                        FALSE)

\* The objects of the page being iterated end at this index of the source.
PageEnd == Min(page * PageSize, Len(source))

\* aws_s3: for page in paginator.paginate(Bucket=bucket)
AwsFetchPage ==
    /\ pc = "enumerating"
    /\ UNCHANGED <<data, metadata, headers, peer>>
    /\ call.provider = "aws_s3" /\ ~call.public
    /\ pos = PageEnd
    /\ IF page > 0 /\ page * PageSize >= Len(source)
       THEN EndLoop
       ELSE \/ /\ page' = page + 1
               /\ asked' = asked + (Min((page + 1) * PageSize, Len(source)) - page * PageSize)
               /\ UNCHANGED <<call, days_stale, now, source, pc, stale_cutoff, pos, count,
                              files, hash_map, src_failed, exc, escaped>>
            \/ \E e \in AwsErrors : Raise(e, TRUE)

\* aws_s3: for obj in page.get("Contents", [])
AwsTakeObject ==
    /\ pc = "enumerating"
    /\ UNCHANGED <<data, metadata, headers, peer>>
    /\ call.provider = "aws_s3" /\ ~call.public
    /\ pos < PageEnd
    /\ IF RaisesOnObject(call, source[pos + 1])
       THEN Raise(NoneCompare, src_failed)
       ELSE /\ Took(pos + 1, count + 1, LimitReached(call.limit, count + 1))
            /\ UNCHANGED <<page, asked, src_failed>>

\* aws_s3, public: for key in known_keys[bucket]
AwsPublicHead ==
    /\ pc = "enumerating"
    /\ UNCHANGED <<data, metadata, headers, peer>>
    /\ call.provider = "aws_s3" /\ call.public
    /\ IF pos = KnownKeyCount(call.bucket)
       THEN EndLoop
       ELSE \/ /\ pos + 1 <= Len(source)
               /\ IF RaisesOnObject(call, source[pos + 1])
                  THEN Raise(NoneCompare, src_failed)
                  ELSE /\ Took(pos + 1, count, FALSE)
                       /\ asked' = asked + 1
                       /\ UNCHANGED <<page, src_failed>>
            \/ \* except ClientError: continue
               /\ pos' = pos + 1
               /\ asked' = asked + 1
               /\ src_failed' = TRUE
               /\ UNCHANGED <<call, days_stale, now, source, pc, stale_cutoff, page, count,
                              files, hash_map, exc, escaped>>
            \/ Raise(Exc("EndpointConnectionError", ""), TRUE)

\* gcs, public: for row in reader
GcsPublicRow ==
    /\ pc = "enumerating"
    /\ UNCHANGED <<data, metadata, headers, peer>>
    /\ call.provider = "gcs" /\ call.public
    /\ IF pos = Len(source) \/ LimitReached(call.limit, count)
       THEN EndLoop
       ELSE \/ \* if not base_url: continue
               /\ pos' = pos + 1
               /\ UNCHANGED <<call, days_stale, now, source, pc, stale_cutoff, page, count,
                              files, hash_map, asked, src_failed, exc, escaped>>
            \/ \* if head.status_code != 200: continue
               /\ pos' = pos + 1
               /\ asked' = asked + 1
               /\ UNCHANGED <<call, days_stale, now, source, pc, stale_cutoff, page, count,
                              files, hash_map, src_failed, exc, escaped>>
            \/ \* except Exception: continue
               /\ pos' = pos + 1
               /\ asked' = asked + 1
               /\ src_failed' = TRUE
               /\ UNCHANGED <<call, days_stale, now, source, pc, stale_cutoff, page, count,
                              files, hash_map, exc, escaped>>
            \/ /\ Took(pos + 1, count + 1, FALSE)
               /\ asked' = asked + 1
               /\ UNCHANGED <<page, src_failed>>

\* gcs: for blob in client.list_blobs(bucket)
GcsNextBlob ==
    /\ pc = "enumerating"
    /\ UNCHANGED <<data, metadata, headers, peer>>
    /\ call.provider = "gcs" /\ ~call.public
    /\ IF pos = Len(source)
       THEN EndLoop
       ELSE \/ IF RaisesOnObject(call, source[pos + 1])
               THEN Raise(NoneCompare, src_failed)
               ELSE /\ Took(pos + 1, count, LimitReached(call.limit, Len(files) + 1))
                    /\ asked' = asked + 1
                    /\ UNCHANGED <<page, src_failed>>
            \/ \E e \in GcsErrors : Raise(e, TRUE)

\* azure_blob: for blob in client.list_blobs()
AzureNextBlob ==
    /\ pc = "enumerating"
    /\ UNCHANGED <<data, metadata, headers, peer>>
    /\ call.provider = "azure_blob"
    /\ IF pos = Len(source)
       THEN EndLoop
       ELSE \/ /\ Took(pos + 1, count + 1, LimitReached(call.limit, count + 1))
               /\ asked' = asked + 1
               /\ UNCHANGED <<page, src_failed>>
            \/ \E e \in AzureErrors : Raise(AzureTranslate(e), TRUE)

\* The write-back of the duplicate ids, and the return of files.
AssignAndReturn ==
    /\ pc = "grouping"
    /\ UNCHANGED <<data, metadata, headers, peer>>
    /\ \E h \in [HashedKeys(call.provider, hash_map) -> RawHashes] :
          files' = AssignDuplicateIds(call.provider, h, files, hash_map, 1)
    /\ pc' = "returned"
    /\ UNCHANGED <<call, days_stale, now, source, stale_cutoff, page, pos, count, hash_map,
                   asked, src_failed, exc, escaped>>

\* ------------------------------------------------------------ reporter.py
PREFERRED_ORDER == <<"path", "status", "size", "last_modified", "duplicate_id">>

\* The field names a record may carry, in ascending order of Python's string
\* comparison (code point by code point).
FieldOrder == <<"duplicate_id", "etag", "is_stale", "last_modified", "message",
                "path", "size", "status">>

StrRank(k) == CHOOSE i \in 1..Len(FieldOrder) : FieldOrder[i] = k
\* a < b on field names
StrLess(a, b) == StrRank(a) < StrRank(b)

\* bool(r.get(k)) for the fields _ensure_status reads: a duplicate_id is None
\* or an id, an is_stale is a bool, a status is a string.
DuplicateIdSet(r) == "duplicate_id" \in DOMAIN r /\ r["duplicate_id"] # None
IsStaleSet(r) == "is_stale" \in DOMAIN r /\ r["is_stale"]
StatusSet(r) == "status" \in DOMAIN r /\ r["status"] # ""

\* StatusOf with the two tests in the other order: stale before duplicate
StatusOfStaleFirst(r) ==
    IF IsStaleSet(r) THEN "stale"
    ELSE IF DuplicateIdSet(r) THEN "duplicate"
    ELSE "active"

\* The status _ensure_status computes for a record that has none.
StatusOf(r) ==
    IF DuplicateIdSet(r) THEN "duplicate"
    ELSE IF IsStaleSet(r) THEN "stale"
    ELSE "active"

\* One iteration of _ensure_status's loop.
EnsureStatusOne(r) ==
    IF StatusSet(r)
    THEN r
    ELSE [k \in DOMAIN r \cup {"status"} |-> IF k = "status" THEN StatusOf(r) ELSE r[k]]

EnsureStatus(records) == [i \in 1..Len(records) |-> EnsureStatusOne(records[i])]

\* SortedKeys without the sort: the keys in some other order (here descending)
RECURSIVE KeysUnsorted(_)
KeysUnsorted(keys) ==
    IF keys = {} THEN <<>>
    ELSE LET m == CHOOSE k \in keys : \A o \in keys : o = k \/ StrLess(o, k)
         IN  <<m>> \o KeysUnsorted(keys \ {m})

\* sorted(keys)
RECURSIVE SortedKeys(_)
SortedKeys(keys) ==
    IF keys = {} THEN <<>>
    ELSE LET m == CHOOSE k \in keys : \A o \in keys : o = k \/ StrLess(k, o)
         IN  <<m>> \o SortedKeys(keys \ {m})

SeqRange(q) == { q[i] : i \in 1..Len(q) }

\* all_keys of _union_headers
AllKeys(records) == UNION { DOMAIN records[i] : i \in 1..Len(records) }

UnionHeaders(records) ==
    LET all_keys == AllKeys(records)
        InAllKeys(k) == k \in all_keys
        ordered == SelectSeq(PREFERRED_ORDER, InAllKeys)
        remaining == SortedKeys({ k \in all_keys : k \notin SeqRange(ordered) })
    IN  ordered \o remaining

\* if not metadata: metadata = [{"message": ...}]
OrPlaceholder(records) ==
    IF records = <<>>
    THEN << [message |-> "No objects found or bucket empty"] >>
    ELSE records

\* cli.scan after scan_bucket returned: export_*(data, output), that is
\* save_csv_report / save_html_report up to the writing of the file.
CliExport ==
    /\ pc = "returned"
    /\ data' = files
    /\ metadata' = EnsureStatus(OrPlaceholder(files))
    /\ headers' = Some(UnionHeaders(EnsureStatus(OrPlaceholder(files))))
    /\ pc' = "reported"
    /\ UNCHANGED <<call, days_stale, now, source, stale_cutoff, page, pos, count, files,
                   hash_map, asked, src_failed, exc, escaped, peer>>

Next ==
    \/ ScanBucketGetProvider
    \/ ScanStart
    \/ AwsFetchPage
    \/ AwsTakeObject
    \/ AwsPublicHead
    \/ GcsPublicRow
    \/ GcsNextBlob
    \/ AzureNextBlob
    \/ AssignAndReturn
    \/ CliExport

Spec == Init /\ [][Next]_vars

\* ------------------------------------------- the reporter called directly
\* Records handed to the reporter directly.  KeyRecords vary in the fields
\* they carry, ValueRecords in the values of the fields _ensure_status reads.
ReportFields == {"status", "path", "duplicate_id", "message", "is_stale", "etag"}

FieldValue(k) ==
    CASE k = "status" -> "stale"
      [] k = "path" -> <<"s3", "test-bucket", 1>>
      [] k = "duplicate_id" -> None
      [] k = "is_stale" -> FALSE
      [] OTHER -> "text"

KeyRecords == { [k \in keys |-> FieldValue(k)] : keys \in SUBSET ReportFields }

\* A record with the given optional status, duplicate_id and is_stale.
ValueRecord(status, duplicate_id, is_stale) ==
    [k \in (IF status = None THEN {} ELSE {"status"})
           \cup (IF duplicate_id = None THEN {} ELSE {"duplicate_id"})
           \cup (IF is_stale = None THEN {} ELSE {"is_stale"}) |->
        CASE k = "status" -> status[1]
          [] k = "duplicate_id" -> duplicate_id[1]
          [] OTHER -> is_stale[1]]

ValueRecords ==
    { ValueRecord(s, d, st) :
        s \in {None, Some(""), Some("stale")},
        d \in {None, Some(None), Some(GroupId(7))},
        st \in {None, Some(TRUE), Some(FALSE)} }
ReportRecords == KeyRecords \cup ValueRecords
ReportInputs == UNION { [1..n -> ReportRecords] : n \in 0..MaxRecords }

InitReport ==
    /\ call = [caller |-> "direct", provider |-> "aws_s3", public |-> FALSE,
               bucket |-> "test-bucket", limit |-> None, oversized_mb |-> None]
    /\ days_stale = 0
    /\ now = T0
    /\ source = <<>>
    /\ pc = "report"
    /\ stale_cutoff = 0
    /\ page = 0
    /\ pos = 0
    /\ count = 0
    /\ files = <<>>
    /\ hash_map = <<>>
    /\ asked = 0
    /\ src_failed = FALSE
    /\ exc = NoExc
    /\ escaped = NoExc
    /\ data \in ReportInputs
    /\ metadata = data
    /\ headers = None
    /\ peer = NoPeer

\* metadata = _ensure_status(metadata)
EnsureStatusCall ==
    /\ pc = "report"
    /\ headers = None
    /\ metadata' = EnsureStatus(metadata)
    /\ pc' = "normalized"
    /\ UNCHANGED <<call, days_stale, now, source, stale_cutoff, page, pos, count, files,
                   hash_map, asked, src_failed, exc, escaped, data, headers, peer>>

\* headers = _union_headers(metadata)
UnionHeadersCall ==
    /\ pc \in {"report", "normalized"}
    /\ headers = None
    /\ headers' = Some(UnionHeaders(metadata))
    /\ UNCHANGED <<call, days_stale, now, source, pc, stale_cutoff, page, pos, count, files,
                   hash_map, asked, src_failed, exc, escaped, data, metadata, peer>>

NextReport ==
    \/ EnsureStatusCall
    \/ UnionHeadersCall

SpecReport == InitReport /\ [][NextReport]_vars

\* ------------------------------------ scans of a source with malformed items
\* Objects with a negative size, and objects without a last_modified.
MalformedObjs ==
    { [size |-> 0 - 1, last_modified |-> T0 - DayTicks],
      [size |-> 0 - 1, last_modified |-> T0],
      [size |-> 1024] }

MalformedSources ==
    UNION {[1..n -> SourceObjs \cup MalformedObjs] : n \in 0..MaxMalformedObjs}

InitMalformed ==
    /\ call \in Calls
    /\ days_stale \in DaysStale
    /\ now \in Nows
    /\ source \in MalformedSources
    /\ AtCall
    /\ peer = NoPeer

SpecMalformed == InitMalformed /\ [][Next]_vars

\* ------------------------------------------------- two concurrent scans
\* The locals of the invocation taking steps.
Frame ==
    [call |-> call, days_stale |-> days_stale, now |-> now, source |-> source, pc |-> pc,
     stale_cutoff |-> stale_cutoff, page |-> page, pos |-> pos, count |-> count,
     files |-> files, hash_map |-> hash_map, asked |-> asked, src_failed |-> src_failed,
     exc |-> exc, escaped |-> escaped]

\* The locals of an invocation about to enter scan.
FrameAtCall(c, d, t, s) ==
    [call |-> c, days_stale |-> d, now |-> t, source |-> s, pc |-> "scan",
     stale_cutoff |-> 0, page |-> 0, pos |-> 0, count |-> 0, files |-> <<>>,
     hash_map |-> <<>>, asked |-> 0, src_failed |-> FALSE, exc |-> NoExc,
     escaped |-> NoExc]

\* Listing scans of a container, called directly.
PairCalls(bucket, limits) ==
    { [caller |-> "direct", provider |-> p, public |-> FALSE, bucket |-> bucket,
       limit |-> l, oversized_mb |-> None] : p \in Providers, l \in limits }

\* The two containers hold objects of one size, old ones and new ones.
PairObjs == {o \in SourceObjs : o.size = 4096}

PairSources == UNION {[1..n -> PairObjs] : n \in 0..MaxPairObjs}

\* Two invocations on different containers; each captures its own now and
\* has its own days_stale.
InitTwo ==
    /\ call \in PairCalls("test-bucket", {None, Some(1)})
    /\ days_stale = 1
    /\ now \in Nows
    /\ source \in PairSources
    /\ AtCall
    /\ peer \in { FrameAtCall(c, 0, T0, s) :
                     c \in PairCalls("other-bucket", {None}), s \in PairSources }

\* The interpreter suspends the running invocation and resumes the other one.
ContextSwitch ==
    /\ peer.pc # "absent"
    /\ peer' = Frame
    /\ call' = peer.call
    /\ days_stale' = peer.days_stale
    /\ now' = peer.now
    /\ source' = peer.source
    /\ pc' = peer.pc
    /\ stale_cutoff' = peer.stale_cutoff
    /\ page' = peer.page
    /\ pos' = peer.pos
    /\ count' = peer.count
    /\ files' = peer.files
    /\ hash_map' = peer.hash_map
    /\ asked' = peer.asked
    /\ src_failed' = peer.src_failed
    /\ exc' = peer.exc
    /\ escaped' = peer.escaped
    /\ UNCHANGED <<data, metadata, headers>>

NextTwo ==
    \/ ScanStart
    \/ AwsFetchPage
    \/ AwsTakeObject
    \/ GcsNextBlob
    \/ AzureNextBlob
    \/ AssignAndReturn
    \/ ContextSwitch

SpecTwo == InitTwo /\ [][NextTwo]_vars

\* ================================================================= claims
\* The scan returned its list (files keeps it while the report is written).
Returned == pc \in {"returned", "reported"}

\* The (size, last_modified) fingerprint of a returned record.
Fingerprint(r) == <<r.size, r.last_modified>>

\* The source object a record was built from.
SourceOf(r) == source[r.path[3]]

\* C1: when a scan returns, all records of one (size, last_modified)
\* fingerprint partition with two or more members carry one and the same
\* non-null duplicate_id.
C1_OneIdPerFingerprint ==
    Returned =>
        \A i, j \in 1..Len(files) :
            (i # j /\ Fingerprint(files[i]) = Fingerprint(files[j])) =>
                /\ files[i].duplicate_id # None
                /\ files[i].duplicate_id = files[j].duplicate_id

\* C2: in a returned list two records share a non-null duplicate_id only if
\* their fingerprints are equal, whatever values the hash takes.
C2_SharedIdOnlyWithinFingerprint ==
    Returned =>
        \A i, j \in 1..Len(files) :
            (files[i].duplicate_id # None /\ files[i].duplicate_id = files[j].duplicate_id) =>
                Fingerprint(files[i]) = Fingerprint(files[j])

UniqueFingerprint(i) ==
    \A j \in 1..Len(files) : j # i => Fingerprint(files[j]) # Fingerprint(files[i])

\* C3: in a returned list every record whose fingerprint is unique among the
\* scanned records has duplicate_id = None.
C3_UniqueFingerprintKeepsNone ==
    Returned =>
        \A i \in 1..Len(files) : UniqueFingerprint(i) => files[i].duplicate_id = None

\* A returned list where the write-back marked a group and left a record of
\* a unique fingerprint alone.
C3_Witness ==
    /\ Returned
    /\ \E i \in 1..Len(files) : UniqueFingerprint(i)
    /\ \E j \in 1..Len(files) : files[j].duplicate_id # None

\* C4: every collected record has is_stale = TRUE exactly when its
\* last_modified is strictly earlier than now - days_stale days, now being
\* the instant captured at the start of the scan, sub-second part included.
C4_StaleIffBeforeExactCutoff ==
    \A i \in 1..Len(files) :
        files[i].is_stale <=>
            (SourceOf(files[i]).last_modified < now - days_stale * DayTicks)

BytesPerMB == 1024 * 1024

\* C5: a scan called with an oversize threshold T > 0 returns records that
\* each carry is_oversized, TRUE exactly when size > T*1024*1024; a scan
\* called with threshold 0 returns records without an is_oversized field.
C5_OversizeGating ==
    LET T == IF call.oversized_mb = None THEN 0 ELSE call.oversized_mb[1]
    IN  IF T > 0
        THEN pc \in {"returned", "reported", "raised"} =>
                /\ Returned
                /\ \A i \in 1..Len(files) :
                      /\ "is_oversized" \in DOMAIN files[i]
                      /\ files[i]["is_oversized"] <=> (files[i].size > T * BytesPerMB)
        ELSE Returned =>
                \A i \in 1..Len(files) : "is_oversized" \notin DOMAIN files[i]

\* C6: a scan with limit K >= 1 on a source holding more than K objects
\* returns exactly K records, and the source is never asked to produce more
\* than K items.
C6_LimitRespected ==
    Truthy(call.limit) =>
        /\ asked <= call.limit[1]
        /\ (Returned /\ Len(source) > call.limit[1]) => Len(files) = call.limit[1]

\* C7: a scan during which the source failed on an item returns no record
\* list: it never skips the failing item and returns what it gathered.
C7_NoPartialResults == src_failed => ~Returned

\* C8: every failure that escapes scan_bucket is a translated RuntimeError.
C8_OnlyTranslatedErrorsEscape ==
    (call.caller = "scan_bucket" /\ pc = "raised") => escaped.cls = "RuntimeError"

\* The status the priority duplicate > stale > active gives a record.
PriorityStatus(r) ==
    IF "duplicate_id" \in DOMAIN r /\ r["duplicate_id"] # None THEN "duplicate"
    ELSE IF "is_stale" \in DOMAIN r /\ r["is_stale"] THEN "stale"
    ELSE "active"

\* _ensure_status has run on the list.
Normalized == pc \in {"normalized", "reported"}

PreferredIndex(k) == CHOOSE i \in 1..Len(PREFERRED_ORDER) : PREFERRED_ORDER[i] = k

\* hs lists every field of K exactly once: the preferred fields first, in the
\* preferred order, then the others in ascending order.
HeadersInOrder(hs, K) ==
    LET pref == K \cap SeqRange(PREFERRED_ORDER)
        np == Cardinality(pref)
    IN  /\ SeqRange(hs) = K
        /\ Len(hs) = Cardinality(K)
        /\ \A i \in 1..Len(hs) : (i <= np) <=> (hs[i] \in pref)
        /\ \A i, j \in 1..Len(hs) :
              (i < j /\ j <= np) => PreferredIndex(hs[i]) < PreferredIndex(hs[j])
        /\ \A i, j \in 1..Len(hs) :
              (np < i /\ i < j) => StrLess(hs[i], hs[j])

\* C10: the column list _union_headers computes contains every observed
\* field exactly once, the observed preferred fields first in the preferred
\* order, then all other observed fields in ascending lexicographic order; so
\* it depends only on the set of observed field names.
C10_HeadersDeterminedByFieldSet ==
    headers # None => HeadersInOrder(headers[1], AllKeys(metadata))

\* Headers computed for two records with different fields, whose other
\* fields were first seen out of order and whose preferred fields come in the
\* reverse of the lexicographic order.
C10_Witness ==
    /\ headers # None
    /\ Len(metadata) = 2
    /\ DOMAIN metadata[1] = {"status", "message", "is_stale"}
    /\ DOMAIN metadata[2] = {"path", "etag", "duplicate_id"}

\* The source yielded an object that is not a valid record.
Malformed(obj) == obj.size < 0 \/ ~HasTimestamp(obj)

\* C11: a scan emits no record for an object whose size is negative or whose
\* last_modified is missing, it substitutes no default for the missing value,
\* and the failure such an object causes is a MalformedRecord error.
C11_MalformedInputFailsFast ==
    /\ \A i \in 1..Len(files) : ~Malformed(SourceOf(files[i]))
    /\ (pc = "raised" /\ exc.info = NoneCompare.info) => exc.cls = "MalformedRecord"

\* The objects the source enumerates for this call: the public mode of aws_s3
\* probes the known keys only.
Enumerated ==
    IF call.provider = "aws_s3" /\ call.public
    THEN Min(Len(source), KnownKeyCount(call.bucket))
    ELSE Len(source)

\* The instant a record's last_modified stands for.
InstantOf(r) == IF call.provider = "gcs" THEN r.last_modified[2] ELSE r.last_modified

\* C12: the returned list is a prefix of the source enumeration: it has
\* min(N, limit) records for a positive limit and N records for limit None
\* or 0, and its i-th record has the path, size and last_modified of the
\* i-th enumerated object.
C12_ResultIsSourcePrefix ==
    Returned =>
        /\ Len(files) = IF Truthy(call.limit)
                        THEN Min(Enumerated, call.limit[1])
                        ELSE Enumerated
        /\ \A i \in 1..Len(files) :
              /\ files[i].path = PathOf(call, i)
              /\ files[i].size = source[i].size
              /\ InstantOf(files[i]) = source[i].last_modified

\* The enumeration loop is over with p items consumed and the records fs
\* collected: the source is exhausted or the limit is reached.
EnumerationEnded(p, fs) ==
    IF call.provider = "aws_s3" /\ call.public
    THEN p = KnownKeyCount(call.bucket)
    ELSE p = Len(source) \/ LimitReached(call.limit, Len(fs))

\* What one step of a scan may do to the record list.
C13_Step ==
    /\ pc' = "grouping" => EnumerationEnded(pos', files')
    /\ pc' = "enumerating" =>
           \A i \in 1..Len(files') : files'[i].duplicate_id = None
    /\ pc' # "raised" =>
           /\ Len(files') >= Len(files)
           /\ \A i \in 1..Len(files) : files'[i].is_stale = files[i].is_stale
    /\ pc = "grouping" =>
           /\ Len(files') = Len(files)
           /\ \A i \in 1..Len(files) :
                 files'[i] = [files[i] EXCEPT !.duplicate_id = files'[i].duplicate_id]
    /\ pc \notin {"enumerating", "grouping"} /\ pc' # "enumerating" => files' = files

\* C13: within one scan the write-back of the duplicate ids starts only
\* after the enumeration has ended; while the enumeration runs every
\* collected record has duplicate_id None; a record's is_stale never changes
\* once the record is appended; the write-back changes no field but
\* duplicate_id and adds or removes no record.
C13_PipelineStepOrdering == [][C13_Step]_vars

\* A scan returned stale and fresh records, some of them with a duplicate id.
C13_Witness ==
    /\ pc = "returned"
    /\ \E i, j, k \in 1..Len(files) :
          /\ files[i].duplicate_id # None
          /\ files[j].is_stale
          /\ ~files[k].is_stale

\* The record list and the fingerprint map of the invocation with locals f
\* hold what its own arguments and its own container determine, as in a run
\* of that invocation alone: records of the first objects of its container
\* with is_stale from its own cutoff, a map over the paths of these records
\* only, and, once returned, the whole prefix with a duplicate id on exactly
\* the records whose fingerprint another of its records shares.
OwnResult(f) ==
    LET n == Len(f.files)
        cutoff == StaleCutoff(f.call.provider, f.now, f.days_stale)
        Fp(i) == <<f.source[i].size, f.source[i].last_modified>>
    IN  /\ n <= Len(f.source)
        /\ \A i \in 1..n :
              /\ f.files[i].path = PathOf(f.call, i)
              /\ f.files[i].size = f.source[i].size
              /\ f.files[i].last_modified =
                     RecordLastModified(f.call.provider, f.source[i].last_modified)
              /\ f.files[i].is_stale = IsStale(f.source[i].last_modified, cutoff)
        /\ \A g \in 1..Len(f.hash_map) : \A k \in 1..Len(f.hash_map[g].group) :
              \E i \in 1..n : /\ f.hash_map[g].group[k] = f.files[i].path
                              /\ f.hash_map[g].fp = Fp(i)
        /\ f.pc = "returned" =>
              /\ n = IF Truthy(f.call.limit)
                     THEN Min(Len(f.source), f.call.limit[1])
                     ELSE Len(f.source)
              /\ \A i \in 1..n :
                    f.files[i].duplicate_id = None
                        <=> (\A j \in 1..n : Fp(j) = Fp(i) => j = i)

\* C14: when two scans of different containers run with their steps
\* interleaved in any order, the record list and the fingerprint map of each
\* hold only what that invocation put there, and each returns the records,
\* is_stale flags and duplicate grouping it returns when run alone.
C14_ScansDoNotInterfere ==
    peer.pc # "absent" => OwnResult(Frame) /\ OwnResult(peer)

\* One scan returned a duplicate group while the other one, whose container
\* holds an object with the same fingerprint, is in the middle of its loop.
C14_Witness ==
    /\ peer.pc = "enumerating"
    /\ pc = "returned"
    /\ Len(peer.files) >= 1
    /\ Len(peer.files) < Len(peer.source)
    /\ \E i \in 1..Len(files) :
          /\ files[i].duplicate_id # None
          /\ files[i].size = peer.files[1].size
          /\ InstantOf(files[i]) = peer.source[1].last_modified

====
